---- MODULE Spec2Model ----
(***************************************************************************)
(* Model of af_office_scrape.py: paginated fetch of provider records,      *)
(* flattening of the nested address list, dated snapshot file, combined    *)
(* archive file and the final monitoring ping.                             *)
(*                                                                         *)
(* A DataFrame is [cols |-> set of column names, rows |-> sequence of      *)
(* functions cols -> cell].  Scalar cells are strings, NaN is the missing  *)
(* value; the raw 'adresser' column holds tagged cells (list / dict /     *)
(* nan) until it is dropped.  Column order of intermediate frames is not   *)
(* modelled: line 93 selects the output columns by name, in the order of   *)
(* required_columns.                                                       *)
(***************************************************************************)
EXTENDS Integers, Sequences, FiniteSets, Bags, TLC

\* ------------------------------------------------------------------ bounds
MaxPageLen == 3     \* records per page body (flattener inputs)
MaxPagesDeep == 2   \* data pages of the single run of PagingSpec
MaxPages   == 1     \* data pages per run of Spec; the page after that ends the data
MaxRuns    == 2     \* runs of the script
MaxDate    == 2     \* calendar dates 1..MaxDate

\* ------------------------------------------------------------- JSON inputs
NaN == "NaN"

KoordA == [latitud |-> "59.3", longitud |-> "18.0", north |-> "6580", east |-> "674"]
KoordB == [latitud |-> "57.7", longitud |-> "11.9", north |-> "6400", east |-> "319"]

AdrA == [adressid |-> "11", adressrad |-> "Storgatan 1", postnummer |-> "11122",
         postort |-> "Stockholm", koordinater |-> KoordA]
AdrB == [adressid |-> "12", adressrad |-> "Hamngatan 2", postnummer |-> "41106",
         postort |-> "Goteborg", koordinater |-> KoordB]
AdrNoKoord == [adressid |-> "13", adressrad |-> "Torget 3", postnummer |-> "90326",
               postort |-> "Umea"]

ProvOne    == [id |-> "1", namn |-> "Alfa", nyval_tillatet |-> "True", adresser |-> <<AdrA>>]
ProvTwo    == [id |-> "2", namn |-> "Beta", nyval_tillatet |-> "False", adresser |-> <<AdrB, AdrA>>]
ProvEmpty  == [id |-> "3", namn |-> "Gamma", nyval_tillatet |-> "True", adresser |-> <<>>]
ProvNoList == [id |-> "4", namn |-> "Delta", nyval_tillatet |-> "True"]
ProvNoKoord == [id |-> "5", namn |-> "Eta", nyval_tillatet |-> "False", adresser |-> <<AdrNoKoord>>]

Providers == {ProvOne, ProvTwo, ProvEmpty, ProvNoList, ProvNoKoord}

SeqsUpTo(S, n) == UNION {[1..k -> S] : k \in 0..n}

\* HTTP responses of the listing endpoint: 200 with a JSON array, or an error
OkResponse(body) == [status |-> 200, body |-> body]
ErrResponse == [status |-> 500, body |-> <<>>]
Responses == {OkResponse(b) : b \in SeqsUpTo(Providers, MaxPageLen)} \cup {ErrResponse}

\* ------------------------------------------------------- sequence helpers
RECURSIVE Flatten(_)
Flatten(ss) == IF ss = <<>> THEN <<>> ELSE Head(ss) \o Flatten(Tail(ss))

SumSeq(s) == LET RECURSIVE Go(_)
                 Go(i) == IF i = 0 THEN 0 ELSE s[i] + Go(i - 1)
             IN Go(Len(s))

\* ------------------------------------------------------- pandas operations
\* cells of the raw 'adresser' column
NanCell == [kind |-> "nan"]
ListCell(l) == [kind |-> "list", items |-> l]
DictCell(a) == [kind |-> "dict", obj |-> a]

Missing(c) == IF c = "adresser" THEN NanCell ELSE NaN

\* dotted column name of a key of the nested 'koordinater' object
Dotted == [latitud |-> "koordinater.latitud", longitud |-> "koordinater.longitud",
           north |-> "koordinater.north", east |-> "koordinater.east"]

\* pd.json_normalize of one JSON object: nested objects become dotted columns,
\* lists stay as one cell
FlatKeys(o) == (DOMAIN o \ {"koordinater"}) \cup
               (IF "koordinater" \in DOMAIN o
                  THEN {Dotted[k] : k \in DOMAIN o.koordinater} ELSE {})

FlatRow(o) == [c \in FlatKeys(o) |->
                 IF c = "adresser" THEN ListCell(o.adresser)
                 ELSE IF c \in DOMAIN o THEN o[c]
                 ELSE o.koordinater[CHOOSE k \in DOMAIN o.koordinater : Dotted[k] = c]]

\* a row widened to the column set cols, absent cells become missing values
Widen(r, cols) == [c \in cols |-> IF c \in DOMAIN r THEN r[c] ELSE Missing(c)]

\* pd.concat(frames, axis=0): union of the columns, rows in order
ConcatRows(frames) ==
  LET cols == UNION {frames[i].cols : i \in 1..Len(frames)}
  IN [cols |-> cols,
      rows |-> Flatten([i \in 1..Len(frames) |->
                 [j \in 1..Len(frames[i].rows) |-> Widen(frames[i].rows[j], cols)]])]

\* pd.json_normalize of a list of objects
JsonNormalize(objs) ==
  ConcatRows([i \in 1..Len(objs) |->
                [cols |-> FlatKeys(objs[i]), rows |-> <<FlatRow(objs[i])>>]])

\* DataFrame.explode('adresser'): one row per list element, one row with a
\* missing value for an empty list or a missing value
ExplodeRow(r) ==
  IF r.adresser.kind = "list" /\ r.adresser.items # <<>>
    THEN [j \in 1..Len(r.adresser.items) |->
            [r EXCEPT !.adresser = DictCell(r.adresser.items[j])]]
    ELSE <<[r EXCEPT !.adresser = NanCell]>>

Explode(df) ==
  [cols |-> df.cols,
   rows |-> Flatten([i \in 1..Len(df.rows) |-> ExplodeRow(df.rows[i])])]

\* data_df['adresser'].dropna(): the cells that hold an address object
DropNa(cells) == SelectSeq(cells, LAMBDA c : c.kind = "dict")

\* .drop(columns=['adresser'])
DropColumn(df, col) ==
  [cols |-> df.cols \ {col},
   rows |-> [i \in 1..Len(df.rows) |-> [c \in df.cols \ {col} |-> df.rows[i][c]]]]

\* the join as an inner join: rows without a partner are dropped
JoinInner(left, right) ==
  LET n == IF Len(left.rows) < Len(right.rows) THEN Len(left.rows) ELSE Len(right.rows)
  IN [cols |-> left.cols \cup right.cols,
      rows |-> [i \in 1..n |->
                 [c \in left.cols \cup right.cols |->
                    IF c \in left.cols THEN left.rows[i][c] ELSE right.rows[i][c]]]]

\* pd.concat([left, right], axis=1) after reset_index on both: rows are
\* paired by position, the shorter frame is padded with missing values
JoinByPosition(left, right) ==
  LET n == IF Len(left.rows) > Len(right.rows) THEN Len(left.rows) ELSE Len(right.rows)
  IN [cols |-> left.cols \cup right.cols,
      rows |-> [i \in 1..n |->
                 [c \in left.cols \cup right.cols |->
                    IF c \in left.cols
                      THEN (IF i <= Len(left.rows) THEN left.rows[i][c] ELSE NaN)
                      ELSE (IF i <= Len(right.rows) THEN right.rows[i][c] ELSE NaN)]]]

\* ------------------------------------------------------------- fetch_data
NoData == [kind |-> "none"]
Raised(e) == [kind |-> "raise", exc |-> e]
Frame(df) == [kind |-> "frame", df |-> df]

\* lines 26-41: the flattening of a non-empty page body
FlattenPage(body) ==
  LET data_df == JsonNormalize(body)
  IN IF "adresser" \in data_df.cols
       THEN LET exploded == Explode(data_df)
                cells == [i \in 1..Len(exploded.rows) |-> exploded.rows[i].adresser]
                adresser_details == DropNa(cells)
            IN IF adresser_details = <<>>
                 THEN Raised("ValueError")    \* pd.concat of an empty list
                 ELSE Frame(JoinByPosition(
                        DropColumn(exploded, "adresser"),
                        JsonNormalize([j \in 1..Len(adresser_details) |->
                                         adresser_details[j].obj])))
       ELSE Frame(data_df)

\* fetch_data without the empty-payload check of line 22
ReachesFlattenerNoEmptyCheck(resp) == resp.status = 200

\* does fetch_data hand the response to the flattener (line 26 is reached)
ReachesFlattener(resp) == resp.status = 200 /\ resp.body # <<>>

FetchData(resp) == IF ReachesFlattener(resp) THEN FlattenPage(resp.body) ELSE NoData

\* ------------------------------------------------------ CSV files on disk
\* column_mapping, lines 75-88, as <<source column, output column>> in the
\* declared order
column_mapping ==
  << <<"id", "id">>, <<"namn", "namn">>, <<"nyval_tillatet", "nyval_tillatet">>,
     <<"adressid", "adresser.adressid">>, <<"adressrad", "adresser.adressrad">>,
     <<"postnummer", "adresser.postnummer">>, <<"postort", "adresser.postort">>,
     <<"koordinater.latitud", "adresser.koordinater.latitud">>,
     <<"koordinater.longitud", "adresser.koordinater.longitud">>,
     <<"koordinater.north", "adresser.koordinater.north">>,
     <<"koordinater.east", "adresser.koordinater.east">>,
     <<"datum", "datum">> >>

\* line 92: list(column_mapping.values())
required_columns == [i \in 1..Len(column_mapping) |-> column_mapping[i][2]]

Range(s) == {s[i] : i \in 1..Len(s)}

\* line 89: DataFrame.rename(columns=column_mapping)
RenameCol(c) ==
  IF \E i \in 1..Len(column_mapping) : column_mapping[i][1] = c
    THEN column_mapping[CHOOSE i \in 1..Len(column_mapping) : column_mapping[i][1] = c][2]
    ELSE c

Rename(df) ==
  [cols |-> {RenameCol(c) : c \in df.cols},
   rows |-> [i \in 1..Len(df.rows) |->
               [c \in {RenameCol(k) : k \in df.cols} |->
                  df.rows[i][CHOOSE k \in df.cols : RenameCol(k) = c]]]]

\* the date assigned as a one-element column: aligned on the index, only the
\* first row receives it
WithDatumFirstRowOnly(df, d) ==
  [cols |-> df.cols \cup {"datum"},
   rows |-> [i \in 1..Len(df.rows) |->
               [c \in df.cols \cup {"datum"} |->
                  IF c = "datum" THEN (IF i = 1 THEN d ELSE NaN) ELSE df.rows[i][c]]]]

\* line 72: combined_data['datum'] = today_date
WithDatum(df, d) ==
  [cols |-> df.cols \cup {"datum"},
   rows |-> [i \in 1..Len(df.rows) |->
               [c \in df.cols \cup {"datum"} |->
                  IF c = "datum" THEN d ELSE df.rows[i][c]]]]

\* strftime("%Y-%m-%d") of calendar date n
DateStr(n) == ToString(n)
Dates == {DateStr(n) : n \in 1..MaxDate}

\* DataFrame.to_csv(index=False): a header line and one line per row, a
\* missing value is written as the empty cell
CsvCell(v) == IF v = NaN THEN "" ELSE v

ToCsv(order, rows) ==
  [header |-> order,
   lines |-> [i \in 1..Len(rows) |-> [k \in 1..Len(order) |-> CsvCell(rows[i][order[k]])]]]

\* pd.read_csv(file, header=None): the header line is read as a row
ReadCsvHeaderAsRow(f) ==
  [order |-> f.header,
   rows |-> [i \in 1..(Len(f.lines) + 1) |->
               [c \in Range(f.header) |->
                  IF i = 1 THEN c
                  ELSE LET v == f.lines[i - 1][CHOOSE k \in 1..Len(f.header) : f.header[k] = c]
                       IN IF v = "" THEN NaN ELSE v]]]

\* pd.read_csv: blank lines are skipped, an empty cell is a missing value
BlankLine(l) == Len(l) = 1 /\ l[1] = ""

ReadCsv(f) ==
  LET kept == SelectSeq(f.lines, LAMBDA l : ~BlankLine(l))
  IN [order |-> f.header,
      rows |-> [i \in 1..Len(kept) |->
                  [c \in Range(f.header) |->
                     LET v == kept[i][CHOOSE k \in 1..Len(f.header) : f.header[k] = c]
                     IN IF v = "" THEN NaN ELSE v]]]

\* pd.concat(frames, ignore_index=True) of frames read from disk: columns in
\* order of first appearance
RECURSIVE UnionOrder(_)
UnionOrder(orders) ==
  IF orders = <<>> THEN <<>>
  ELSE LET rest == UnionOrder(Tail(orders))
       IN Head(orders) \o SelectSeq(rest, LAMBDA c : c \notin Range(Head(orders)))

ConcatRead(frames) ==
  LET order == UnionOrder([i \in 1..Len(frames) |-> frames[i].order])
  IN [order |-> order,
      rows |-> Flatten([i \in 1..Len(frames) |->
                 [j \in 1..Len(frames[i].rows) |->
                    [c \in Range(order) |->
                       IF c \in DOMAIN frames[i].rows[j]
                         THEN frames[i].rows[j][c] ELSE NaN]]])]

NoFile == [header |-> <<>>, lines |-> <<>>]

\* ------------------------------------------------------------------ state
VARIABLES
  pc,              \* position of the script / of the caller
  runs,            \* runs of the script started so far
  clock,           \* current calendar date (datetime.now())
  page_number,     \* save_combined_data: next page index
  all_data,        \* save_combined_data: frames of the pages fetched
  response,        \* fetch_data: the HTTP response being handled
  data,            \* result of the last fetch_data call
  requests,        \* history: <<page index, response>> of every GET of this run
  flattened,       \* history: page indexes that reached the flattener
  ret,             \* return value of save_combined_data
  exc,             \* exception that escaped, if any
  pings,           \* GETs to the monitoring URL in this run
  dirExists,       \* the data folder exists
  files,           \* data folder: date -> CSV file, NoFile when absent
  combined,        \* combined_data.csv, NoFile when absent
  combineCalls,    \* history: calls of combine_all_csvs in this run
  filesAtCombine,  \* history: the data folder as the last combine read it
  filesAtStart,    \* history: the data folder when the run started
  combinedAtStart, \* history: combined_data.csv when the run started
  startDate,       \* history: the date when page 1 of the run was requested
  callResult       \* history: outcome of the last direct combine_all_csvs call

vars == <<pc, runs, clock, page_number, all_data, response, data, requests,
          flattened, ret, exc, pings, dirExists, files, combined,
          combineCalls, filesAtCombine, filesAtStart, combinedAtStart,
          startDate, callResult>>

runVars == <<page_number, all_data, response, data, requests, flattened,
             ret, pings>>
diskVars == <<dirExists, files, combined, filesAtCombine>>
startVars == <<filesAtStart, combinedAtStart>>

\* a snapshot file name that does not follow the date
SnapshotNameFixed(today) == DateStr(1)

\* line 98: the snapshot file of a run is named by today_date
SnapshotName(today) == today

\* the script calling combine_all_csvs whatever save_combined_data returned
AfterSaveAlwaysCombine(r) == "combine"

\* the script pinging only on the branch that fetched data
AfterSaveSkipPing(r) == IF r = "True" THEN "combine" ELSE "done"

\* lines 131-135: combine only after a successful save, then the ping
AfterSave(r) == IF r = "True" THEN "combine" ELSE "ping"

NoResponse == [status |-> 0, body |-> <<>>]
Pending == [kind |-> "pending"]

\* what the listing endpoint answers when its pages of data are "bodies"
RunResponses(bodies) == {OkResponse(b) : b \in bodies} \cup {OkResponse(<<>>), ErrResponse}

\* page bodies served during the single run of PagingSpec
ListingBodies == {<<p>> : p \in Providers} \cup { <<ProvNoKoord, ProvOne>> }

\* page bodies served during the runs of Spec
ArchiveBodies == { <<ProvEmpty>>, <<ProvTwo>>, <<ProvNoKoord, ProvOne>> }

Init ==
  /\ pc = "idle"
  /\ runs = 0
  /\ clock = 1
  /\ page_number = 1
  /\ all_data = <<>>
  /\ response = NoResponse
  /\ data = Pending
  /\ requests = <<>>
  /\ flattened = <<>>
  /\ ret = "none"
  /\ exc = "none"
  /\ pings = 0
  /\ dirExists \in BOOLEAN
  /\ files = [d \in Dates |-> NoFile]
  /\ combined = NoFile
  /\ combineCalls = 0
  /\ filesAtCombine = [d \in Dates |-> NoFile]
  /\ filesAtStart = files
  /\ combinedAtStart = combined
  /\ startDate = 0
  /\ callResult = "none"

NotRunning == pc \in {"idle", "done", "raised"}

\* the script is started: python af_office_scrape.py
StartRun ==
  /\ NotRunning
  /\ runs < MaxRuns
  /\ runs' = runs + 1
  /\ pc' = "fetch"
  /\ page_number' = 1
  /\ all_data' = <<>>
  /\ response' = NoResponse
  /\ data' = Pending
  /\ requests' = <<>>
  /\ flattened' = <<>>
  /\ ret' = "none"
  /\ exc' = "none"
  /\ pings' = 0
  /\ combineCalls' = 0
  /\ filesAtStart' = files
  /\ combinedAtStart' = combined
  /\ startDate' = 0
  /\ callResult' = "none"
  /\ UNCHANGED <<clock, diskVars>>

\* the locals of save_combined_data and the histories of its call end with
\* the call, by return or by an exception
CallEnds ==
  /\ page_number' = 1
  /\ all_data' = <<>>
  /\ response' = NoResponse
  /\ data' = Pending
  /\ requests' = <<>>
  /\ flattened' = <<>>

\* one iteration of the loop of lines 58-64, fetch_data included; the
\* endpoint serves at most "limit" pages of data, taken from "bodies"
FetchPageWithin(limit, bodies) ==
  /\ pc = "fetch"
  /\ \E r \in RunResponses(bodies) :
       /\ page_number > limit => ~ReachesFlattener(r)
       /\ startDate' = IF page_number = 1 THEN clock ELSE startDate
       /\ LET result == FetchData(r)
          IN \/ /\ result.kind = "none"
                /\ pc' = "save"
                /\ response' = r
                /\ data' = result
                /\ requests' = Append(requests, <<page_number, r>>)
                /\ UNCHANGED <<all_data, page_number, flattened, exc>>
             \/ /\ result.kind = "raise"
                /\ pc' = "raised"
                /\ exc' = result.exc
                /\ CallEnds
             \/ /\ result.kind = "frame"
                /\ response' = r
                /\ data' = result
                /\ requests' = Append(requests, <<page_number, r>>)
                /\ flattened' = Append(flattened, page_number)
                /\ all_data' = Append(all_data, result.df)
                /\ page_number' = page_number + 1
                /\ UNCHANGED <<pc, exc>>
  /\ UNCHANGED <<runs, clock, ret, pings, diskVars, combineCalls, startVars, callResult>>

FetchPage == FetchPageWithin(MaxPages, ArchiveBodies)

\* lines 67-106 of save_combined_data
SaveSnapshot ==
  /\ pc = "save"
  /\ IF all_data # <<>>
       THEN LET today_date == DateStr(clock)                      \* line 71
                stamped == Rename(WithDatum(ConcatRows(all_data), today_date))
            IN IF Range(required_columns) \subseteq stamped.cols
                 THEN /\ dirExists' = TRUE
                      /\ files' = [files EXCEPT ![SnapshotName(today_date)] =
                                     ToCsv(required_columns, stamped.rows)]
                      /\ ret' = "True"
                      /\ pc' = AfterSave("True")
                      /\ UNCHANGED exc
                 ELSE /\ pc' = "raised"          \* KeyError at line 93
                      /\ exc' = "KeyError"
                      /\ UNCHANGED <<dirExists, files, ret>>
       ELSE /\ ret' = "False"
            /\ pc' = AfterSave("False")
            /\ UNCHANGED <<dirExists, files, exc>>
  /\ CallEnds
  /\ UNCHANGED <<runs, clock, pings, combined, combineCalls, filesAtCombine,
                 startVars, startDate, callResult>>

\* os.listdir: the .csv files of the data folder
CsvFiles == {d \in Dates : files[d] # NoFile}

Listings(S) == {o \in [1..Cardinality(S) -> S] : Range(o) = S}

\* combine_all_csvs with combined_data.csv inside the folder it lists
CombineWriteReadsOutput(listing) ==
  LET frames == [i \in 1..Len(listing) |-> ReadCsv(files[listing[i]])]
      combined_data == ConcatRead(IF combined = NoFile THEN frames
                                  ELSE Append(frames, ReadCsv(combined)))
  IN /\ combined' = ToCsv(combined_data.order, combined_data.rows)
     /\ filesAtCombine' = files

\* lines 112-127 of combine_all_csvs, the directory listed in order "listing"
CombineWrite(listing) ==
  LET frames == [i \in 1..Len(listing) |-> ReadCsv(files[listing[i]])]
      combined_data == ConcatRead(frames)
  IN /\ combined' = ToCsv(combined_data.order, combined_data.rows)
     /\ filesAtCombine' = files

\* line 133: combine_all_csvs() called by the script
CombineAllCsvs ==
  /\ pc = "combine"
  /\ \E listing \in Listings(CsvFiles) : CombineWrite(listing)
  /\ combineCalls' = combineCalls + 1
  /\ pc' = "ping"
  /\ UNCHANGED <<runs, clock, runVars, exc, dirExists, files, startVars,
                 startDate, callResult>>

\* line 135: the GET to the monitoring URL
Heartbeat ==
  /\ pc = "ping"
  /\ pings' = pings + 1
  /\ pc' = "done"
  /\ UNCHANGED <<runs, clock, page_number, all_data, response, data, requests,
                 flattened, ret, exc, diskVars, combineCalls,
                 startVars, startDate, callResult>>

\* combine_all_csvs() called on its own while the script is not running
CallCombine ==
  /\ NotRunning
  /\ IF ~dirExists
       THEN /\ callResult' = "FileNotFoundError"    \* os.listdir, line 116
            /\ UNCHANGED <<combined, filesAtCombine>>
       ELSE IF CsvFiles = {}
         THEN /\ callResult' = "no files"            \* lines 118-120
              /\ UNCHANGED <<combined, filesAtCombine>>
         ELSE /\ \E listing \in Listings(CsvFiles) : CombineWrite(listing)
              /\ callResult' = "written"
  /\ UNCHANGED <<pc, runs, clock, runVars, exc, dirExists, files, combineCalls,
                 startVars, startDate>>

\* midnight passes
Tick ==
  /\ clock < MaxDate
  /\ clock' = clock + 1
  /\ UNCHANGED <<pc, runs, runVars, exc, diskVars, combineCalls, startVars,
                 startDate, callResult>>

Next == StartRun \/ FetchPage \/ SaveSnapshot \/ CombineAllCsvs \/ Heartbeat
        \/ CallCombine \/ Tick

Spec == Init /\ [][Next]_vars

\* the interpreter keeps executing a started script: while it is running, its
\* position (pc, and page_number inside the loop) changes again; every
\* statement block of the script changes one of the two, and starting the
\* script, direct calls and the passing of midnight change neither
Running == pc \in {"fetch", "save", "combine", "ping"}

ScriptStep ==
  /\ Running
  /\ pc' \in {"fetch", "save", "combine", "ping", "done", "raised"}
  /\ page_number' \in 1..(MaxPages + 1)

FairSpec == Spec /\ WF_<<pc, page_number>>(ScriptStep)

\* --------------------------------- one run of the script, longer listings
StartFirstRun == runs = 0 /\ StartRun

FetchPageDeep == FetchPageWithin(MaxPagesDeep, ListingBodies)

NextPaging == StartFirstRun \/ FetchPageDeep \/ SaveSnapshot \/ CombineAllCsvs
              \/ Heartbeat \/ Tick

PagingSpec == Init /\ [][NextPaging]_vars

\* ------------------------------------------- fetch_data on its own inputs
InitFetch ==
  /\ pc = "call"
  /\ response \in Responses
  /\ data = Pending
  /\ runs = 0 /\ clock = 1 /\ page_number = 1 /\ all_data = <<>>
  /\ requests = <<>> /\ flattened = <<>> /\ ret = "none"
  /\ exc = "none" /\ pings = 0 /\ dirExists = FALSE
  /\ files = [d \in Dates |-> NoFile] /\ combined = NoFile /\ combineCalls = 0
  /\ filesAtCombine = files /\ filesAtStart = files /\ combinedAtStart = combined
  /\ startDate = 0 /\ callResult = "none"

\* data = fetch_data(page_number) for the response drawn in InitFetch
CallFetchData ==
  /\ pc = "call"
  /\ data' = FetchData(response)
  /\ pc' = "returned"
  /\ UNCHANGED <<runs, clock, page_number, all_data, response, requests, flattened,
                 ret, exc, pings, diskVars, combineCalls, startVars,
                 startDate, callResult>>

NextFetch == CallFetchData

FetchSpec == InitFetch /\ [][NextFetch]_vars

\* ================================================================ claims
ProviderCols == {"id", "namn", "nyval_tillatet"}

\* number of addresses of a JSON provider record
AddressCount(p) == IF "adresser" \in DOMAIN p THEN Len(p.adresser) ELSE 0

ProviderPart(r) == [c \in ProviderCols |-> r[c]]

Copies(x, n) == [j \in 1..n |-> x]

AtLeastOne(k) == IF k = 0 THEN 1 ELSE k

\* provider columns of the rows of the frame fetch_data returned, in order
ReturnedProviderParts ==
  [i \in 1..Len(data.df.rows) |-> ProviderPart(data.df.rows[i])]

AddressCols(df) == df.cols \ ProviderCols

AddressPart(df, a) == [c \in AddressCols(df) |-> IF c \in FlatKeys(a) THEN FlatRow(a)[c] ELSE NaN]

HasAddress(df, r) == \E c \in AddressCols(df) : r[c] # NaN

\* C10: every returned row with address values carries an address of the
\* provider whose id and namn are in that row
C10_AddressOfSameProvider ==
  (pc = "returned" /\ data.kind = "frame") =>
    \A i \in 1..Len(data.df.rows) :
      LET r == data.df.rows[i]
      IN HasAddress(data.df, r) =>
           \E n \in 1..Len(response.body) :
             LET p == response.body[n]
             IN /\ p.id = r.id /\ p.namn = r.namn
                /\ \E j \in 1..AddressCount(p) :
                     [c \in AddressCols(data.df) |-> r[c]] = AddressPart(data.df, p.adresser[j])

\* ---- C1
\* an empty JSON array or a non-200 status
EndsPagination(r) == r.status # 200 \/ r.body = <<>>

\* C1: pages are requested as 1, 2, 3, ... one GET each; the first empty or
\* non-200 page is the last page requested; the frames in all_data are those
\* of exactly the pages before it, and the flattener never ran on an empty or
\* error page
C1_PaginationStops ==
  /\ \A i \in 1..Len(requests) : requests[i][1] = i
  /\ \A i \in 1..Len(requests) :
       EndsPagination(requests[i][2]) => (i = Len(requests) /\ pc = "save")
  /\ \A i \in 1..Len(flattened) :
       /\ flattened[i] = i
       /\ i <= Len(requests)
       /\ ~EndsPagination(requests[i][2])
  /\ pc = "save" =>
       /\ requests # <<>>
       /\ EndsPagination(requests[Len(requests)][2])
       /\ Len(all_data) = Len(requests) - 1
       /\ Len(flattened) = Len(requests) - 1
  /\ pc = "fetch" => (Len(all_data) = Len(requests) /\ page_number = Len(requests) + 1)
  /\ \A i \in 1..Len(all_data) :
       /\ i <= Len(requests)
       /\ all_data[i] = FlattenPage(requests[i][2].body).df

C1_Witness ==
  /\ pc = "save"
  /\ Len(requests) = 3
  /\ Len(all_data) = 2
  /\ requests[3][2] = ErrResponse

\* ---- C3
\* C3: when at least one page yielded data, save_combined_data completes and
\* the snapshot it writes has exactly the columns of column_mapping, in the
\* declared order
C3_SnapshotColumns ==
  [][(pc = "save" /\ pc' # "save" /\ all_data # <<>>) =>
       /\ ret' = "True"
       /\ \E d \in Dates : /\ files'[d] # NoFile
                           /\ files'[d].header = required_columns
                           /\ \A e \in Dates \ {d} : files'[e] = files[e]]_vars

\* ---- C4
PageOneEmpty == requests # <<>> /\ EndsPagination(requests[1][2])

NothingWritten ==
  /\ combineCalls = 0
  /\ files = filesAtStart
  /\ combined = combinedAtStart

\* C4: save_combined_data returns True exactly when a page yielded data; when
\* page 1 is empty or non-200 it returns False, combine_all_csvs is not
\* invoked, and the data folder and combined_data.csv are as the run found them
C4_NoDataNoWrite ==
  /\ [][(pc = "save" /\ pc' # "save") =>
          /\ ret' # "none" => (ret' = "True" <=> ~PageOneEmpty)
          /\ PageOneEmpty => (ret' = "False" /\ pc' = "ping")]_vars
  /\ [](PageOneEmpty => NothingWritten)
  /\ []((ret = "False" /\ callResult = "none") =>
          (pc \in {"ping", "done"} /\ NothingWritten))

C4_Witness ==
  /\ pc = "done" /\ ret = "False" /\ callResult = "none"
  /\ combinedAtStart # NoFile
  /\ \E d \in Dates : filesAtStart[d] # NoFile

\* ---- C5
SnapshotRowCount == SumSeq([n \in 1..MaxDate |-> Len(files[DateStr(n)].lines)])

\* C5: when combined_data.csv has been written from the data folder as it is
\* now, its row count is the sum of the row counts of all snapshot files
C5_CombinedRowCount ==
  (combined # NoFile /\ filesAtCombine = files) =>
    /\ Len(combined.lines) = SnapshotRowCount
    /\ Len(ReadCsv(combined).rows) = SnapshotRowCount

C5_Witness ==
  /\ combined # NoFile /\ filesAtCombine = files
  /\ \A d \in Dates : files[d] # NoFile
  /\ Len(combined.lines) >= 3

\* ---- C6
\* C6: a run without an escaping exception issues exactly one GET to the
\* monitoring URL, after save_combined_data has returned and, when it returned
\* True, after combine_all_csvs; a started run reaches the ping or raises
C6_HeartbeatSafety ==
  /\ pings <= 1
  /\ pc = "done" => pings = 1
  /\ pings = 1 =>
       /\ pc = "done"
       /\ ret \in {"True", "False"}
       /\ (ret = "True" <=> combineCalls = 1)
  /\ pc = "raised" => pings = 0

C6_HeartbeatOnce ==
  /\ []C6_HeartbeatSafety
  /\ (pc = "fetch") ~> (pc = "raised" \/ (pc = "done" /\ pings = 1))

C6_Witness == pc = "done" /\ pings = 1 /\ ret = "True" /\ combineCalls = 1 /\ runs = MaxRuns

\* ---- C7
DatumIndex == CHOOSE k \in 1..Len(required_columns) : required_columns[k] = "datum"

DatumOfAllRows(f, d) == \A i \in 1..Len(f.lines) : f.lines[i][DatumIndex] = d

\* C7 as stated: every row of the snapshot a run writes carries the date on
\* which page 1 was requested, which is the date in the file name
C7_DatumIsStartDate_Original ==
  [][(pc = "save" /\ pc' = "combine") =>
       /\ files'[DateStr(startDate)] # NoFile
       /\ DatumOfAllRows(files'[DateStr(clock)], DateStr(startDate))]_vars

\* C7 amended: every row of the snapshot a run writes carries one date, the
\* date at the moment the snapshot is written (after the last page was
\* fetched), and that date is the one in the file name
C7_DatumIsWriteDate ==
  [][(pc = "save" /\ pc' = "combine") =>
       /\ files'[DateStr(clock)] # NoFile
       /\ DatumOfAllRows(files'[DateStr(clock)], DateStr(clock))
       /\ \A d \in Dates : d # DateStr(clock) => files'[d] = files[d]]_vars

\* a run has written its snapshot, and not under the date of its first request
C7_Witness ==
  /\ pc = "combine"
  /\ startDate < clock
  /\ files[DateStr(startDate)] = NoFile
  /\ files[DateStr(clock)] # filesAtStart[DateStr(clock)]
  /\ Len(files[DateStr(clock)].lines) >= 2

\* ---- C8
\* C8 as stated: a snapshot file, once written, is never modified or replaced
C8_SnapshotImmutable_Original ==
  [][\A d \in Dates : files[d] # NoFile => files'[d] = files[d]]_vars

\* C8 amended: a snapshot file changes only when a run writes its snapshot,
\* and then only the file named by the date of that moment: a run that yields
\* data creates or replaces that one file, a snapshot of any other date is
\* never modified, and no snapshot is ever removed
C8_OnlySameDateReplaced ==
  [][\A d \in Dates :
       /\ files'[d] # files[d] =>
            (pc = "save" /\ pc' = "combine" /\ d = DateStr(clock))
       /\ files[d] # NoFile => files'[d] # NoFile]_vars

\* a run has replaced the snapshot an earlier run wrote on the same date
C8_Witness ==
  /\ pc = "combine"
  /\ \E d \in Dates : filesAtStart[d] # NoFile /\ files[d] # filesAtStart[d]

\* ---- C9
BagOfSeq(q) == [x \in Range(q) |-> Cardinality({i \in 1..Len(q) : q[i] = x})]

CombineStep == CombineAllCsvs \/ (CallCombine /\ callResult' = "written")

\* C9: a combine that finds the data folder as the previous combine read it
\* writes the same column set and the same multiset of rows as before
C9_CombineIdempotent ==
  [][(CombineStep /\ combined # NoFile /\ filesAtCombine = files) =>
       /\ Range(combined'.header) = Range(combined.header)
       /\ Len(combined'.lines) = Len(combined.lines)
       /\ BagOfSeq(combined'.lines) = BagOfSeq(combined.lines)]_vars

C9_Witness ==
  /\ callResult = "written" /\ filesAtCombine = files
  /\ \A d \in Dates : files[d] # NoFile
  /\ combined.lines[1][DatumIndex] = DateStr(MaxDate)

====
